---- MODULE Spec2Model ----
(***************************************************************************)
(* TikTok content analysis and script generation pipeline.                 *)
(*                                                                         *)
(* The module models the LLM gateway (src/src/utils.py), the script        *)
(* generator and its response normalization (src/src/script_generator.py)  *)
(* and the content analyzer (src/src/content_analyzer.py).                 *)
(*                                                                         *)
(* JSON values are tagged records: Str, Num, Null, List, Dict.  A text is  *)
(* either well-formed JSON (it carries the value it denotes) or malformed  *)
(* (it carries its characters).  A Python call that can raise is an        *)
(* operator returning [ok |-> TRUE, val |-> ...] or                        *)
(* [ok |-> FALSE, msg |-> str(e)].                                         *)
(***************************************************************************)
EXTENDS Integers, Sequences, FiniteSets, TLC

\* ------------------------------------------------------------------ bounds
MaxVariants == 3        \* largest requested variant count
MaxLen == 3             \* longest JSON array the LLM text parses to
MaxRecords == 2         \* most records in one analysis / processed file

\* ------------------------------------------------------------ JSON values
Str(s) == [kind |-> "str", s |-> s]
Num(n) == [kind |-> "num", n |-> n]
Null == [kind |-> "null"]
List(items) == [kind |-> "list", items |-> items]
Dict(fields) == [kind |-> "dict", fields |-> fields]

EmptyDict == Dict([k \in {} |-> Null])

\* A dict literal whose keys all hold the same value.
UniformDict(keys, v) == Dict([k \in keys |-> v])

\* type(obj).__name__
TypeName(v) ==
    CASE v.kind = "str" -> "str"
      [] v.kind = "num" -> "int"
      [] v.kind = "null" -> "NoneType"
      [] v.kind = "list" -> "list"
      [] v.kind = "dict" -> "dict"

Ok(v) == [ok |-> TRUE, val |-> v]
Raise(cls, m) == [ok |-> FALSE, cls |-> cls, msg |-> m]

\* the exception classes that occur, all subclasses of Exception;
\* json.JSONDecodeError is a subclass of ValueError
ExceptionClasses == {"TypeError", "KeyError", "AttributeError", "ValueError",
                     "JSONDecodeError", "OpenAIError", "APIError",
                     "OSError", "FileNotFoundError"}
IsInstance(cls, base) ==
    \/ cls = base
    \/ base = "Exception" /\ cls \in ExceptionClasses
    \/ base = "ValueError" /\ cls = "JSONDecodeError"

Min(a, b) == IF a < b THEN a ELSE b

\* Python substring test on str
Contains(s, sub) ==
    \E i \in 1..(Len(s) - Len(sub) + 1) : SubSeq(s, i, i + Len(sub) - 1) = sub

\* key in obj
PyIn(key, obj) ==
    CASE obj.kind = "dict" -> Ok(key \in DOMAIN obj.fields)
      [] obj.kind = "list" -> Ok(\E i \in 1..Len(obj.items) : obj.items[i] = Str(key))
      [] obj.kind = "str" -> Ok(Contains(obj.s, key))
      [] OTHER -> Raise("TypeError", "argument of type '" \o TypeName(obj) \o "' is not iterable")

\* obj[key] with a str key
PyGetItem(obj, key) ==
    CASE obj.kind = "dict" ->
            IF key \in DOMAIN obj.fields THEN Ok(obj.fields[key])
            ELSE Raise("KeyError", "'" \o key \o "'")
      [] obj.kind = "str" -> Raise("TypeError", "string indices must be integers, not 'str'")
      [] obj.kind = "list" -> Raise("TypeError", "list indices must be integers or slices, not str")
      [] OTHER -> Raise("TypeError", "'" \o TypeName(obj) \o "' object is not subscriptable")

\* obj[key] = val with a str key
PySetItem(obj, key, val) ==
    CASE obj.kind = "dict" ->
            Ok(Dict([k \in DOMAIN obj.fields \cup {key} |->
                        IF k = key THEN val ELSE obj.fields[k]]))
      [] obj.kind = "list" -> Raise("TypeError", "list indices must be integers or slices, not str")
      [] OTHER -> Raise("TypeError", "'" \o TypeName(obj) \o "' object does not support item assignment")

\* ------------------------------------------------------------------ texts
GoodText(v) == [valid |-> TRUE, parsed |-> v]
BadText(raw) == [valid |-> FALSE, raw |-> raw]

\* json.loads(text)
JsonLoads(text) ==
    IF text.valid THEN Ok(text.parsed)
    ELSE Raise("JSONDecodeError", "Expecting value: line 1 column 1 (char 0)")

\* json.dumps(value)
JsonDumps(v) == GoodText(v)

\* ------------------------------------------- script normalization (inputs)
Fields == <<"hook", "value", "cta", "visuals", "audio">>
FieldSet == {Fields[i] : i \in 1..Len(Fields)}

FieldVals == {Str("H"), Num(5), Null}
FullScript == UniformDict(FieldSet, Str("H"))
ElemKeySets == {{}, {"hook"}, FieldSet}
ElemDicts == {UniformDict(ks, v) : ks \in ElemKeySets, v \in FieldVals}
AllNamesList == List(<<Str("hook"), Str("value"), Str("cta"), Str("visuals"), Str("audio")>>)
ElemOthers == {Str("x"), Num(5), AllNamesList}
ElemVals == ElemDicts \cup ElemOthers

SeqsUpTo(S, n) == UNION {[1..m -> S] : m \in 0..n}

ScalarVals == {Str("x"), Str("my scripts"), Str("hook value cta visuals audio"), Num(5), Null}
ArrayVals == {List(s) : s \in SeqsUpTo(ElemVals, MaxLen)}
WrappedVals == {Dict([k \in {"scripts"} |-> a]) : a \in ArrayVals \cup {Str("x"), Null}}
ParsedVals == ArrayVals \cup WrappedVals \cup ElemDicts \cup ScalarVals

MalformedRaws == {"not json", "Here are your scripts: [", ""}
RawTexts == {GoodText(v) : v \in ParsedVals} \cup {BadText(r) : r \in MalformedRaws}

\* ---------------------------------------- script normalization (operators)
LogEntry(level, msg) == [level |-> level, msg |-> msg]

\* l[:n] for n >= 0
Slice(l, n) == SubSeq(l, 1, Min(n, Len(l)))

\* script_generator.py 188-194
ParseErrorScript ==
    Dict([f \in FieldSet |-> Str("Error parsing script response")])

\* AdditionalScript numbering the placeholder by the length before the append
AdditionalScriptZeroBased(k) ==
    Dict([f \in FieldSet |->
        CASE f = "hook" -> Str("Additional script variant " \o ToString(k - 1))
          [] f = "value" -> Str("Generated value for variant " \o ToString(k - 1))
          [] f = "cta" -> Str("Generated CTA for variant " \o ToString(k - 1))
          [] f = "visuals" -> Str("Generated visuals for variant " \o ToString(k - 1))
          [] f = "audio" -> Str("Generated audio for variant " \o ToString(k - 1))])

\* script_generator.py 198-204, with k = len(script_variants) + 1
AdditionalScript(k) ==
    Dict([f \in FieldSet |->
        CASE f = "hook" -> Str("Additional script variant " \o ToString(k))
          [] f = "value" -> Str("Generated value for variant " \o ToString(k))
          [] f = "cta" -> Str("Generated CTA for variant " \o ToString(k))
          [] f = "visuals" -> Str("Generated visuals for variant " \o ToString(k))
          [] f = "audio" -> Str("Generated audio for variant " \o ToString(k))])

\* script_generator.py 219-225: one element of the except-branch list
ErrorScript(msg) ==
    Dict([f \in FieldSet |->
        IF f = "hook" THEN Str("Error generating script: " \o msg)
        ELSE Str("Error generating script")])

\* script_generator.py 176-183: choose the candidate list from the parsed value
SelectCandidates(scripts, variants) ==
    IF scripts.kind = "list" THEN Ok(Slice(scripts.items, variants))
    ELSE LET isin == PyIn("scripts", scripts) IN
         IF ~isin.ok THEN isin
         ELSE IF ~isin.val THEN Ok(<<scripts>>)
         ELSE LET item == PyGetItem(scripts, "scripts") IN
              IF ~item.ok THEN item
              ELSE IF item.val.kind = "list" THEN Ok(Slice(item.val.items, variants))
              ELSE Ok(<<scripts>>)

\* script_generator.py 171-183: the body of the inner try
ParseAndSelect(response, variants) ==
    LET parsed == JsonLoads(response) IN
    IF parsed.ok THEN SelectCandidates(parsed.val, variants) ELSE parsed

\* InnerHandler without the json.JSONDecodeError clause: a malformed text
\* goes to the outer handler like any other exception
InnerHandlerAbsent(body, response) ==
    IF body.ok THEN [ok |-> TRUE, val |-> body.val, log |-> <<>>]
    ELSE [ok |-> FALSE, cls |-> body.cls, msg |-> body.msg, log |-> <<>>]

\* script_generator.py 185-194: the handler of the inner try, which takes
\* json.JSONDecodeError only; any other exception goes on to the outer handler
InnerHandler(body, response) ==
    IF body.ok THEN [ok |-> TRUE, val |-> body.val, log |-> <<>>]
    ELSE IF IsInstance(body.cls, "JSONDecodeError")
    THEN [ok |-> TRUE, val |-> <<ParseErrorScript>>,
          log |-> <<LogEntry("warning", "Failed to parse response as JSON: "
                                \o Slice(response.raw, 100) \o "...")>>]
    ELSE [ok |-> FALSE, cls |-> body.cls, msg |-> body.msg, log |-> <<>>]

\* script_generator.py 171-194: the inner try with its handler
ParseResponse(response, variants) ==
    InnerHandler(ParseAndSelect(response, variants), response)

\* script_generator.py 197-204
RECURSIVE PadVariants(_, _)
PadVariants(script_variants, variants) ==
    IF Len(script_variants) < variants
    THEN PadVariants(Append(script_variants,
                            AdditionalScript(Len(script_variants) + 1)), variants)
    ELSE script_variants

\* TruncateVariants with the final truncation left out
TruncateVariantsNoop(script_variants, variants) == script_variants

\* script_generator.py 207
TruncateVariants(script_variants, variants) == Slice(script_variants, variants)

\* script_generator.py 211-213 for one script, fields i..5 in order
RECURSIVE FillScript(_, _)
FillScript(script, i) ==
    IF i > Len(Fields) THEN Ok(script)
    ELSE LET isin == PyIn(Fields[i], script) IN
         IF ~isin.ok THEN isin
         ELSE IF isin.val THEN FillScript(script, i + 1)
         ELSE LET set == PySetItem(script, Fields[i], Str("Missing " \o Fields[i])) IN
              IF ~set.ok THEN set ELSE FillScript(set.val, i + 1)

\* script_generator.py 210-213 for scripts i.. of the list, first exception wins
RECURSIVE FillVariants(_, _)
FillVariants(script_variants, i) ==
    IF i > Len(script_variants) THEN Ok(script_variants)
    ELSE LET filled == FillScript(script_variants[i], 1) IN
         IF ~filled.ok THEN filled
         ELSE FillVariants([script_variants EXCEPT ![i] = filled.val], i + 1)

\* the result of a step together with the log written so far
WithLog(result, log) ==
    IF result.ok THEN [ok |-> TRUE, val |-> result.val, log |-> log]
    ELSE [ok |-> FALSE, cls |-> result.cls, msg |-> result.msg, log |-> log]

\* script_generator.py 196-215: pad, truncate and fill the candidates
PadTruncateFill(parsed, variants) ==
    IF ~parsed.ok THEN parsed
    ELSE WithLog(FillVariants(TruncateVariants(PadVariants(parsed.val, variants),
                                               variants), 1),
                 parsed.log)

\* script_generator.py 170-215: the body of the outer try once the response
\* text is in hand
NormalizeBody(response, variants) ==
    PadTruncateFill(ParseResponse(response, variants), variants)

\* script_generator.py 219-225: the list the outer handler returns
ErrorVariants(msg, variants) == [i \in 1..variants |-> ErrorScript(msg)]

\* OuterHandler taking ValueError only
OuterHandlerValueErrorOnly(body, variants) ==
    IF body.ok
    THEN [ok |-> TRUE, val |-> body.val, caught |-> <<>>, log |-> body.log]
    ELSE IF IsInstance(body.cls, "ValueError")
    THEN [ok |-> TRUE, val |-> ErrorVariants(body.msg, variants),
          caught |-> <<body.msg>>,
          log |-> body.log \o <<LogEntry("error", "Error generating scripts: " \o body.msg)>>]
    ELSE [ok |-> FALSE, cls |-> body.cls, msg |-> body.msg,
          val |-> <<>>, caught |-> <<>>, log |-> body.log]

\* script_generator.py 166-225: the outer try/except Exception around body.
\* ok = FALSE means the exception leaves the function; caught holds the
\* message the handler saw
OuterHandler(body, variants) ==
    IF body.ok
    THEN [ok |-> TRUE, val |-> body.val, caught |-> <<>>, log |-> body.log]
    ELSE IF IsInstance(body.cls, "Exception")
    THEN [ok |-> TRUE, val |-> ErrorVariants(body.msg, variants),
          caught |-> <<body.msg>>,
          log |-> body.log \o <<LogEntry("error", "Error generating scripts: " \o body.msg)>>]
    ELSE [ok |-> FALSE, cls |-> body.cls, msg |-> body.msg,
          val |-> <<>>, caught |-> <<>>, log |-> body.log]

\* script_generator.py 164-225 given what generate_llm_response did at line
\* 168: llm is Ok(text) or Raise(cls, msg)
NormalizeResponse(llm, variants) ==
    OuterHandler(IF llm.ok THEN NormalizeBody(llm.val, variants)
                 ELSE [ok |-> FALSE, cls |-> llm.cls, msg |-> llm.msg, log |-> <<>>],
                 variants)

\* ------------------------------------------------------------ LLM gateway
\* utils.py 22-24: OpenAI(api_key=OPENAI_API_KEY) raises when no key is
\* configured (settings.py 19 reads it from the environment)
SetupLlmClient(apiKeySet) ==
    IF apiKeySet THEN Ok("client")
    ELSE Raise("OpenAIError", "The api_key client option must be set")

\* utils.py 30-34
BuildMessages(prompt, system_message) ==
    (IF system_message # "" THEN <<[role |-> "system", content |-> system_message]>>
     ELSE <<>>) \o <<[role |-> "user", content |-> prompt]>>

\* utils.py 37-41: the request handed to client.chat.completions.create
CompletionRequest(prompt, system_message, json_output) ==
    [model |-> "gpt-3.5-turbo",
     messages |-> BuildMessages(prompt, system_message),
     response_format |-> IF json_output THEN "json_object" ELSE "none"]

\* utils.py 53-58
FallbackJson(response) ==
    JsonDumps(Dict([k \in {"content_type", "content_approach", "reasoning",
                           "original_response"} |->
        CASE k = "content_type" -> Str("unknown")
          [] k = "content_approach" -> Str("unknown")
          [] k = "reasoning" -> Str("Model did not return valid JSON")
          [] k = "original_response" -> Str(response.raw)]))

\* EnsureJson returning the response whether or not it parses
EnsureJsonKeepsText(response) == Ok(response)

\* utils.py 45-58: with JSON output requested, keep a response that parses
\* and replace one that does not
EnsureJson(response) ==
    LET parsed == JsonLoads(response) IN
    IF parsed.ok THEN Ok(response)
    ELSE IF IsInstance(parsed.cls, "JSONDecodeError") THEN Ok(FallbackJson(response))
    ELSE parsed

\* CallFailed reporting the failure in the shape of an unknown classification
CallFailedUnknownShape(msg, json_output) ==
    IF json_output
    THEN JsonDumps(Dict([content_type |-> Str("unknown"),
                         content_approach |-> Str("unknown"),
                         reasoning |-> Str("unknown"),
                         error |-> Str(msg)]))
    ELSE BadText("Error: " \o msg)

\* utils.py 60-64: the handler of the outer try
CallFailed(msg, json_output) ==
    IF json_output THEN JsonDumps(Dict([k \in {"error"} |-> Str(msg)]))
    ELSE BadText("Error: " \o msg)

\* the body of the try handing the completion text on unchecked
CompletionBodyUnchecked(json_output, completion) ==
    IF ~completion.ok THEN completion ELSE Ok(completion.val)

\* utils.py 37-59: the body of the try.  completion is what the API does
\* with the request: Ok(text) or Raise(cls, msg)
CompletionBody(json_output, completion) ==
    IF ~completion.ok THEN completion
    ELSE IF json_output THEN EnsureJson(completion.val)
    ELSE Ok(completion.val)

\* the gateway sending the request a second time when the first failed
GatewayResultRetries(body, json_output, requests) ==
    IF body.ok THEN [ok |-> TRUE, val |-> body.val, requests |-> requests]
    ELSE [ok |-> TRUE, val |-> CallFailed(body.msg, json_output),
          requests |-> requests \o requests]

\* utils.py 36-64: the try/except Exception around body
GatewayResult(body, json_output, requests) ==
    IF body.ok THEN [ok |-> TRUE, val |-> body.val, requests |-> requests]
    ELSE IF IsInstance(body.cls, "Exception")
    THEN [ok |-> TRUE, val |-> CallFailed(body.msg, json_output), requests |-> requests]
    ELSE [ok |-> FALSE, cls |-> body.cls, msg |-> body.msg, requests |-> requests]

\* utils.py 28: setup_llm_client() stands before the try
ClientFailure(client) ==
    [ok |-> FALSE, cls |-> client.cls, msg |-> client.msg, requests |-> <<>>]

\* utils.py 26-64.  The result is Ok(text) or the exception that leaves the
\* function, together with the requests sent to the API.
GenerateLlmResponse(apiKeySet, prompt, system_message, json_output, completion) ==
    IF ~SetupLlmClient(apiKeySet).ok
    THEN ClientFailure(SetupLlmClient(apiKeySet))
    ELSE GatewayResult(CompletionBody(json_output, completion), json_output,
                       <<CompletionRequest(prompt, system_message, json_output)>>)

\* what the completion API can do with one request
ApiFailures == {Raise("APIError", "Connection error."),
                Raise("APIError", "Rate limit reached"),
                Raise("APIError", "Incorrect API key provided")}
GwTexts == {GoodText(v) : v \in ElemDicts \cup ScalarVals \cup {List(<<>>)}}
               \cup {BadText(r) : r \in MalformedRaws}
GwCompletions == {Ok(text) : text \in GwTexts} \cup ApiFailures

\* ------------------------------------------------------- content analyzer
\* row[col] on a pandas row; every row of a frame has the frame's columns
RowGetItem(row, col) ==
    IF col \in DOMAIN row THEN Ok(row[col]) ELSE Raise("KeyError", "'" \o col \o "'")

\* content_analyzer.py 115-119
ClassifyFallback(msg) ==
    Dict([content_type |-> Str("unknown"),
          content_approach |-> Str("unknown"),
          reasoning |-> Str("Error analyzing: " \o msg)])

\* content_analyzer.py 162-167
HookFallback(msg) ==
    Dict([hook_pattern |-> Str("unknown"),
          psych_triggers |-> List(<<Str("unknown")>>),
          hook_effectiveness_score |-> Num(0),
          error |-> Str(msg)])

\* a lookup that raised before any gateway call
LookupFailed(r) ==
    [ok |-> FALSE, cls |-> r.cls, msg |-> r.msg, calls |-> 0, requests |-> <<>>]

\* content_analyzer.py 108-111 / 155-158: the response, then json.loads
LlmJson(llm) ==
    IF llm.ok THEN JsonLoads(llm.val) ELSE Raise(llm.cls, llm.msg)

\* content_analyzer.py 106-119: the try/except Exception of _classify_content
ClassifyResult(parsed, requests) ==
    IF parsed.ok
    THEN [ok |-> TRUE, val |-> parsed.val, calls |-> 1, requests |-> requests]
    ELSE IF IsInstance(parsed.cls, "Exception")
    THEN [ok |-> TRUE, val |-> ClassifyFallback(parsed.msg), calls |-> 1,
          requests |-> requests]
    ELSE [ok |-> FALSE, cls |-> parsed.cls, msg |-> parsed.msg, calls |-> 1,
          requests |-> requests]

\* content_analyzer.py 153-167: the try/except Exception of _extract_hook
HookResult(parsed, requests) ==
    IF parsed.ok
    THEN [ok |-> TRUE, val |-> parsed.val, calls |-> 1, requests |-> requests]
    ELSE IF IsInstance(parsed.cls, "Exception")
    THEN [ok |-> TRUE, val |-> HookFallback(parsed.msg), calls |-> 1,
          requests |-> requests]
    ELSE [ok |-> FALSE, cls |-> parsed.cls, msg |-> parsed.msg, calls |-> 1,
          requests |-> requests]

ClassifyTry(llm) == ClassifyResult(LlmJson(llm), llm.requests)
HookTry(llm) == HookResult(LlmJson(llm), llm.requests)

\* content_analyzer.py 70-119.  The lookups of video_id (80) and caption
\* (100) stand outside the try; the gateway call and json.loads (106-112)
\* stand inside it.
ClassifyContent(row, apiKeySet, completion) ==
    IF ~RowGetItem(row, "video_id").ok THEN LookupFailed(RowGetItem(row, "video_id"))
    ELSE IF ~RowGetItem(row, "caption").ok THEN LookupFailed(RowGetItem(row, "caption"))
    ELSE ClassifyTry(GenerateLlmResponse(apiKeySet, "Video Caption: " \o row["caption"].s,
                        "You are a TikTok content analysis expert. Classify",
                        TRUE, completion))

\* content_analyzer.py 121-167, the same shape with its own fallback
ExtractHook(row, apiKeySet, completion) ==
    IF ~RowGetItem(row, "video_id").ok THEN LookupFailed(RowGetItem(row, "video_id"))
    ELSE IF ~RowGetItem(row, "caption").ok THEN LookupFailed(RowGetItem(row, "caption"))
    ELSE HookTry(GenerateLlmResponse(apiKeySet, "Video Caption: " \o row["caption"].s,
                        "You are a TikTok content analysis expert. Hook",
                        TRUE, completion))

\* content_analyzer.py 58-61
AnalysisErrorEntry(video_id, msg) ==
    Dict([video_id |-> video_id, error |-> Str(msg)])

\* content_analyzer.py 46-50
AnalysisEntry(video_id, classification, hook_analysis) ==
    Dict([video_id |-> video_id, classification |-> classification,
          hook_analysis |-> hook_analysis])

\* content_analyzer.py 44-61: the try/except Exception around the two
\* sub-analyses; _extract_hook runs only if _classify_content returned
AnalyzeOutcome(video_id, classification, hook) ==
    IF ~classification.ok
    THEN IF IsInstance(classification.cls, "Exception")
         THEN [status |-> "ok", calls |-> classification.calls,
               requests |-> classification.requests,
               entry |-> AnalysisErrorEntry(video_id, classification.msg)]
         ELSE [status |-> "raise", cls |-> classification.cls, msg |-> classification.msg,
               calls |-> classification.calls, requests |-> classification.requests]
    ELSE IF ~hook.ok
    THEN IF IsInstance(hook.cls, "Exception")
         THEN [status |-> "ok", calls |-> classification.calls + hook.calls,
               requests |-> classification.requests \o hook.requests,
               entry |-> AnalysisErrorEntry(video_id, hook.msg)]
         ELSE [status |-> "raise", cls |-> hook.cls, msg |-> hook.msg,
               calls |-> classification.calls + hook.calls,
               requests |-> classification.requests \o hook.requests]
    ELSE [status |-> "ok", calls |-> classification.calls + hook.calls,
          requests |-> classification.requests \o hook.requests,
          entry |-> AnalysisEntry(video_id, classification.val, hook.val)]

\* content_analyzer.py 42: row['video_id'] raised, outside the try
RecordRaised(r) ==
    [status |-> "raise", cls |-> r.cls, msg |-> r.msg, calls |-> 0, requests |-> <<>>]

\* content_analyzer.py 41-61: one iteration of the loop.  status "raise"
\* means the exception leaves analyze_content; otherwise entry is what is
\* appended to the results.
AnalyzeRecord(row, apiKeySet, completion1, completion2) ==
    IF ~RowGetItem(row, "video_id").ok THEN RecordRaised(RowGetItem(row, "video_id"))
    ELSE AnalyzeOutcome(row["video_id"],
                        ClassifyContent(row, apiKeySet, completion1),
                        ExtractHook(row, apiKeySet, completion2))

\* utils.py 79-103: save_json writes the artifact, or only logs when the
\* write fails; it never raises
SaveJson(data, diskOk) == IF diskOk THEN <<data>> ELSE <<>>

\* utils.py 81-100: the body of save_json's try: the file is opened and the
\* data dumped, or one of the two raises
SaveJsonBody(diskOk) ==
    IF diskOk THEN Ok("saved") ELSE Raise("OSError", "No space left on device")

\* the handler of save_json raising again what it caught, as load_json does
SaveJsonHandlerReraises(body) == body

\* utils.py 101-103: except Exception logs the error and falls through
SaveJsonHandler(body) ==
    IF body.ok THEN body
    ELSE IF IsInstance(body.cls, "Exception") THEN Ok("logged")
    ELSE body

\* utils.py 79-103: whether save_json returns to its caller
SaveJsonReturns(diskOk) == SaveJsonHandler(SaveJsonBody(diskOk)).ok

\* the frames analyze_content is run on
VideoIds == {"v1", "v2"}
ColumnSets == {{"video_id", "caption", "likes"}, {"video_id", "likes"}, {"caption", "likes"}}
MkRow(cols, id) ==
    [c \in cols |-> CASE c = "video_id" -> Str(id)
                      [] c = "caption" -> Str("c")
                      [] c = "likes" -> Num(10)]
DataFrames ==
    {[columns |-> cols, rows |-> [i \in 1..Len(ids) |-> MkRow(cols, ids[i])]] :
        cols \in ColumnSets, ids \in SeqsUpTo(VideoIds, MaxRecords)}

GoodClassification ==
    Dict([content_type |-> Str("Tutorial"), content_approach |-> Str("Voice-over"),
          reasoning |-> Str("r")])
AnCompletions == {Ok(GoodText(GoodClassification)), Ok(GoodText(List(<<>>))),
                  Ok(BadText("not json")), Raise("APIError", "Connection error.")}

\* ------------------------------------------------------- script generator
\* obj.get(key, default)
PyGet(obj, key, default) ==
    IF obj.kind = "dict"
    THEN Ok(IF key \in DOMAIN obj.fields THEN obj.fields[key] ELSE default)
    ELSE Raise("AttributeError", "'" \o TypeName(obj) \o "' object has no attribute 'get'")

\* bool(obj)
Truthy(v) ==
    CASE v.kind = "str" -> v.s # ""
      [] v.kind = "num" -> v.n # 0
      [] v.kind = "null" -> FALSE
      [] v.kind = "list" -> Len(v.items) > 0
      [] v.kind = "dict" -> DOMAIN v.fields # {}

\* the keys of a dict as a sequence (the insertion order is not modelled)
RECURSIVE SetToSeq(_)
SetToSeq(S) ==
    IF S = {} THEN <<>>
    ELSE LET x == CHOOSE y \in S : TRUE IN <<x>> \o SetToSeq(S \ {x})

\* iterating obj: the elements of a list, the characters of a str, the keys
\* of a dict
PyIter(obj) ==
    CASE obj.kind = "list" -> Ok(obj.items)
      [] obj.kind = "str" -> Ok([i \in 1..Len(obj.s) |-> Str(SubSeq(obj.s, i, i))])
      [] obj.kind = "dict" ->
            Ok(LET ks == SetToSeq(DOMAIN obj.fields) IN [i \in 1..Len(ks) |-> Str(ks[i])])
      [] OTHER -> Raise("TypeError", "'" \o TypeName(obj) \o "' object is not iterable")

RECURSIVE JoinFrom(_, _)
JoinFrom(items, i) ==
    IF i > Len(items) THEN Ok("")
    ELSE IF items[i].kind # "str"
    THEN Raise("TypeError", "sequence item " \o ToString(i - 1)
                  \o ": expected str instance, " \o TypeName(items[i]) \o " found")
    ELSE LET rest == JoinFrom(items, i + 1) IN
         IF ~rest.ok THEN rest
         ELSE Ok(items[i].s \o (IF i < Len(items) THEN ", " ELSE "") \o rest.val)

\* ", ".join(obj)
PyJoin(obj) ==
    LET it == PyIter(obj) IN
    IF ~it.ok THEN Raise("TypeError", "can only join an iterable")
    ELSE JoinFrom(it.val, 1)

\* obj.get(outer, {}).get(inner, default)
PyGetGet(obj, outer, inner, default) ==
    LET o == PyGet(obj, outer, EmptyDict) IN
    IF ~o.ok THEN o ELSE PyGet(o.val, inner, default)

\* script_generator.py 119-126: the insights read from the analysis entry,
\* before the try.  The value is psych_triggers_text.
ExtractInsights(video_analysis) ==
    LET content_type == PyGetGet(video_analysis, "classification", "content_type", Str("unknown"))
        content_approach == PyGetGet(video_analysis, "classification", "content_approach", Str("unknown"))
        hook_pattern == PyGetGet(video_analysis, "hook_analysis", "hook_pattern", Str("unknown"))
        psych_triggers == PyGetGet(video_analysis, "hook_analysis", "psych_triggers", List(<<>>))
    IN  IF ~content_type.ok THEN content_type
        ELSE IF ~content_approach.ok THEN content_approach
        ELSE IF ~hook_pattern.ok THEN hook_pattern
        ELSE IF ~psych_triggers.ok THEN psych_triggers
        ELSE IF Truthy(psych_triggers.val) THEN PyJoin(psych_triggers.val)
        ELSE Ok("none identified")

\* script_generator.py 119-126 raised: the prelude stands before the try
InsightsFailed(insights) ==
    [ok |-> FALSE, cls |-> insights.cls, msg |-> insights.msg,
     calls |-> 0, requests |-> <<>>, caught |-> <<>>]

\* script_generator.py 166-225: what _generate_video_scripts returns after
\* its one gateway call
ScriptsResult(norm, requests) ==
    IF norm.ok
    THEN [ok |-> TRUE, val |-> norm.val, calls |-> 1, requests |-> requests,
          caught |-> norm.caught]
    ELSE [ok |-> FALSE, cls |-> norm.cls, msg |-> norm.msg, calls |-> 1,
          requests |-> requests, caught |-> <<>>]

\* script_generator.py 164-225: the response of the gateway, normalized
NormalizeLlm(llm, variants) ==
    ScriptsResult(NormalizeResponse(IF llm.ok THEN Ok(llm.val) ELSE Raise(llm.cls, llm.msg),
                                    variants),
                  llm.requests)

\* script_generator.py 129-168: the prompts and the gateway call.  Of the
\* prompts the variant count and the trigger text are kept.
CallAndNormalize(insights, variants, apiKeySet, completion) ==
    IF ~insights.ok THEN InsightsFailed(insights)
    ELSE NormalizeLlm(GenerateLlmResponse(apiKeySet,
                          "Create exactly " \o ToString(variants) \o " script variants",
                          "Create " \o ToString(variants)
                              \o " script variants. Psychological triggers: " \o insights.val,
                          TRUE, completion),
                      variants)

\* script_generator.py 96-225: one LLM call for variants variants and the
\* normalization of its response
GenerateVideoScripts(video_analysis, variants, apiKeySet, completion) ==
    CallAndNormalize(ExtractInsights(video_analysis), variants, apiKeySet, completion)

\* script_generator.py 72-75
ScriptsEntry(video_id, video_scripts) ==
    Dict([video_id |-> video_id, variants |-> List(video_scripts)])

\* ScriptsErrorEntry without the variants key
ScriptsErrorEntryNoVariants(video_id, msg) ==
    Dict([video_id |-> video_id, error |-> Str(msg)])

\* script_generator.py 79-83
ScriptsErrorEntry(video_id, msg) ==
    Dict([video_id |-> video_id, error |-> Str(msg), variants |-> List(<<>>)])

\* script_generator.py 45-52: load and validate the analysis file; the value
\* is the sequence the loop at line 57 runs over
LoadAnalysis(file) ==
    LET analysis_data == JsonLoads(file) IN
    IF ~analysis_data.ok THEN analysis_data
    ELSE LET has == PyIn("results", analysis_data.val) IN
         IF ~has.ok THEN has
         ELSE IF ~has.val THEN Raise("ValueError", "Invalid analysis data format")
         ELSE LET results == PyGetItem(analysis_data.val, "results") IN
              IF ~results.ok THEN results
              ELSE IF results.val.kind \in {"num", "null"}
              THEN Raise("TypeError", "object of type '" \o TypeName(results.val)
                                          \o "' has no len()")
              ELSE PyIter(results.val)

\* script_generator.py 60-83: the inner try/except Exception of the loop
RecordOutcome(video_id, video_scripts) ==
    IF ~video_id.ok
    THEN [status |-> "raise", cls |-> video_id.cls, msg |-> video_id.msg,
          calls |-> 0, requests |-> <<>>]
    ELSE IF video_scripts.ok
    THEN [status |-> "ok", calls |-> video_scripts.calls, requests |-> video_scripts.requests,
          entry |-> ScriptsEntry(video_id.val, video_scripts.val)]
    ELSE IF IsInstance(video_scripts.cls, "Exception")
    THEN [status |-> "ok", calls |-> video_scripts.calls, requests |-> video_scripts.requests,
          entry |-> ScriptsErrorEntry(video_id.val, video_scripts.msg)]
    ELSE [status |-> "raise", cls |-> video_scripts.cls, msg |-> video_scripts.msg,
          calls |-> video_scripts.calls, requests |-> video_scripts.requests]

\* script_generator.py 57-83: one iteration of the loop.  status "raise"
\* means the exception leaves the loop (line 58 is outside the inner try) and
\* is re-raised by generate_scripts (92-94).
GenerateRecord(video_analysis, variants, apiKeySet, completion) ==
    RecordOutcome(PyGet(video_analysis, "video_id", Str("unknown")),
                  GenerateVideoScripts(video_analysis, variants, apiKeySet, completion))

\* the analysis files generate_scripts is run on
GoodHook(triggers) ==
    Dict([hook_pattern |-> Str("Question"), psych_triggers |-> triggers,
          hook_effectiveness_score |-> Num(7)])
GenEntries ==
    {AnalysisEntry(Str("v1"), GoodClassification, GoodHook(List(<<Str("curiosity"), Str("fomo")>>))),
     AnalysisErrorEntry(Str("v2"), "'caption'"),
     AnalysisEntry(Str("v3"), List(<<>>), GoodHook(List(<<>>))),
     AnalysisEntry(Str("v4"), GoodClassification, GoodHook(Num(5))),
     AnalysisEntry(Str("v5"), ClassifyFallback("x"), GoodHook(List(<<Num(1)>>))),
     Dict([classification |-> GoodClassification]),
     Str("v7")}
AnalysisFiles ==
    {GoodText(Dict([results |-> List(es)])) : es \in SeqsUpTo(GenEntries, MaxRecords)}
        \cup {GoodText(EmptyDict), GoodText(Num(5)), BadText("")}

GenCompletions ==
    {Ok(GoodText(List(<<FullScript>>))),
     Ok(GoodText(Dict([scripts |-> List(<<UniformDict({"hook"}, Str("H")), FullScript>>)]))),
     Ok(GoodText(Num(5))),
     Ok(BadText("not json")),
     Raise("APIError", "Connection error.")}

\* ------------------------------------------------------- output manager
\* int(obj) for the values a variant_number can hold
DigitStrings == {"0", "1", "2", "3"}
PyInt(v) ==
    CASE v.kind = "num" -> Ok(v.n)
      [] v.kind = "str" ->
            IF v.s \in DigitStrings
            THEN Ok(CHOOSE n \in 0..3 : ToString(n) = v.s)
            ELSE Raise("ValueError", "invalid literal for int() with base 10: '" \o v.s \o "'")
      [] OTHER -> Raise("TypeError", "int() argument must be a string, a bytes-like object "
                            \o "or a real number, not '" \o TypeName(v) \o "'")

\* len(obj)
PyLen(v) ==
    CASE v.kind = "list" -> Ok(Len(v.items))
      [] v.kind = "str" -> Ok(Len(v.s))
      [] v.kind = "dict" -> Ok(Cardinality(DOMAIN v.fields))
      [] OTHER -> Raise("TypeError", "object of type '" \o TypeName(v) \o "' has no len()")

\* output_manager.py 16-22: the client exists only if the key is set and
\* Client(auth=...) did not raise
InitNotionClient(notionKeySet, clientOk) == notionKeySet /\ clientOk

\* output_manager.py 85-90: what is read from one script set before its
\* variants are gone through; the value is the sequence of variants
ReadScriptSet(script_set) ==
    IF script_set.kind # "dict" THEN PyGet(script_set, "video_id", Str("unknown"))
    ELSE PyIter(PyGet(script_set, "script_variants", List(<<>>)).val)

\* output_manager.py 85-88: the four values of the script set that go into
\* every page of its variants
SetProperties(script_set) ==
    [video_id |-> PyGet(script_set, "video_id", Str("unknown")).val,
     content_type |-> PyGet(script_set, "original_content_type", Str("unknown")).val,
     hook_pattern |-> PyGet(script_set, "original_hook_pattern", Str("unknown")).val,
     style |-> PyGet(script_set, "style_used", Str("standard")).val]

\* output_manager.py 93-168: the arguments of pages.create, evaluated inside
\* the per-variant try before the request is sent
BuildPage(props, variant, number) ==
    IF variant.kind # "dict" THEN PyGet(variant, "title", Str("Untitled Script"))
    ELSE IF ~number.ok THEN number
    ELSE Ok([op |-> "create",
             title |-> PyGet(variant, "title", Str("Untitled Script")).val,
             video_id |-> props.video_id,
             content_type |-> props.content_type,
             hook_pattern |-> props.hook_pattern,
             style |-> props.style,
             variant |-> number.val,
             status |-> "For Review",
             hook |-> PyGet(variant, "hook", Str("")).val,
             build |-> PyGet(variant, "build", Str("")).val,
             cta |-> PyGet(variant, "cta", Str("")).val,
             visual_notes |-> PyGet(variant, "visual_notes", Str("")).val])

\* output_manager.py 112: int(variant.get("variant_number", 0))
VariantNumber(variant) ==
    IF variant.kind # "dict" THEN PyGet(variant, "variant_number", Num(0))
    ELSE PyInt(PyGet(variant, "variant_number", Num(0)).val)

\* output_manager.py 91-172: the per-variant try.  page is BuildPage's
\* result, api what pages.create does with the request.  The handler (171)
\* reads variant.get('variant_number', 0) for its log line, outside any inner
\* try: on a variant that is not a mapping that raises to the outer handler.
VariantHandler(variant, page, api) ==
    IF page.ok /\ api.ok THEN "success"
    ELSE IF variant.kind # "dict" THEN "abort"
    ELSE "error"

\* the database check, ignored
DatabaseCheckIgnored(retrieve) == "proceed"

\* output_manager.py 77-81: the database check
DatabaseCheck(retrieve) == IF retrieve.ok THEN "proceed" ELSE "abort"

\* output_manager.py 175
PushResult(success_count, error_count) == error_count = 0

\* the scripts files publish is run on: lists of script sets with a
\* script_variants list, the ScriptsOutput mapping generate_scripts writes,
\* and values that are neither
NotionVariant(k) ==
    Dict([variant_number |-> k, title |-> Str("T"), hook |-> Str("H"),
          build |-> Str("B"), cta |-> Str("C"), visual_notes |-> Str("V")])
VariantVals ==
    {NotionVariant(Num(1)), NotionVariant(Str("2")), NotionVariant(Str("two")),
     Dict([hook |-> Str("H")]), Str("hook")}
NotionScriptSet(vs) ==
    Dict([video_id |-> Str("v1"), original_content_type |-> Str("Tutorial"),
          original_hook_pattern |-> Str("Question"), style_used |-> Str("educational"),
          script_variants |-> List(vs)])
ScriptSetVals ==
    {NotionScriptSet(vs) : vs \in SeqsUpTo(VariantVals, MaxVariants - 1)}
        \cup {Dict([video_id |-> Str("v2")]),
              Dict([video_id |-> Str("v3"), script_variants |-> Num(5)]),
              Str("v4")}
ScriptsOutputs ==
    {Dict([scripts |-> List(es)]) :
        es \in SeqsUpTo({ScriptsEntry(Str("v1"), <<FullScript, FullScript>>),
                         ScriptsEntry(Str("v2"), <<FullScript>>),
                         ScriptsErrorEntry(Str("v3"), "boom")}, MaxRecords)}
PublishData ==
    {List(ss) : ss \in SeqsUpTo(ScriptSetVals, MaxRecords)}
        \cup ScriptsOutputs \cup {Num(5), Str("ab")}
NotionFailures == {Raise("APIError", "Could not find database"),
                   Raise("APIError", "validation_error")}

\* ------------------------------------------------------- data processor
\* data_processor.py 79: [tag["name"] for tag in ...] over the tags from i on
RECURSIVE TagNames(_, _)
TagNames(tags, i) ==
    IF i > Len(tags) THEN Ok(<<>>)
    ELSE IF ~PyGetItem(tags[i], "name").ok THEN PyGetItem(tags[i], "name")
    ELSE IF ~TagNames(tags, i + 1).ok THEN TagNames(tags, i + 1)
    ELSE Ok(<<PyGetItem(tags[i], "name").val>> \o TagNames(tags, i + 1).val)

\* data_processor.py 79: the hashtags of an item that is a mapping
HashtagNames(item) ==
    IF ~PyIter(PyGet(item, "hashtags", List(<<>>)).val).ok
    THEN PyIter(PyGet(item, "hashtags", List(<<>>)).val)
    ELSE TagNames(PyIter(PyGet(item, "hashtags", List(<<>>)).val).val, 1)

\* data_processor.py 70-84: the record built from an item all of whose
\* lookups returned
VideoData(item, name, duration, hashtags) ==
    Dict([video_id |-> PyGet(item, "id", Str("")).val,
          creator_name |-> name,
          creator_username |-> name,
          caption |-> PyGet(item, "text", Str("")).val,
          likes |-> PyGet(item, "diggCount", Num(0)).val,
          shares |-> PyGet(item, "shareCount", Num(0)).val,
          comments |-> PyGet(item, "commentCount", Num(0)).val,
          duration |-> duration,
          hashtags |-> List(hashtags),
          video_url |-> PyGet(item, "webVideoUrl", Str("")).val,
          download_url |-> PyGet(item, "videoUrl", Str("")).val,
          created_at |-> PyGet(item, "createTime", Num(0)).val,
          transcript |-> Str("")])

\* data_processor.py 70-84: the projection of one raw item, in the order
\* the dict literal is evaluated
Flatten(item) ==
    IF item.kind # "dict" THEN PyGet(item, "id", Str(""))
    ELSE IF ~PyGetGet(item, "authorMeta", "name", Str("")).ok
    THEN PyGetGet(item, "authorMeta", "name", Str(""))
    ELSE IF ~PyGetGet(item, "videoMeta", "duration", Num(0)).ok
    THEN PyGetGet(item, "videoMeta", "duration", Num(0))
    ELSE IF ~HashtagNames(item).ok THEN HashtagNames(item)
    ELSE Ok(VideoData(item, PyGetGet(item, "authorMeta", "name", Str("")).val,
                      PyGetGet(item, "videoMeta", "duration", Num(0)).val,
                      HashtagNames(item).val))

\* data_processor.py 87-88: the Whisper model is loaded for the first item
\* that has a download url, if transcription was asked for
NeedsWhisperLoad(video_data, transcribe, whisper_model) ==
    transcribe /\ Truthy(video_data.fields["download_url"]) /\ ~whisper_model

\* the per-item try dropping every item that asks for the Whisper model
ItemOutcomeDropsLoaded(flat, transcribe, whisper_model, loadOk) ==
    IF ~flat.ok THEN "skip"
    ELSE IF NeedsWhisperLoad(flat.val, transcribe, whisper_model) THEN "skip"
    ELSE "append"

\* data_processor.py 68-102: the per-item try/except Exception.  flat is
\* Flatten's result, loadOk whether whisper.load_model returns
ItemOutcome(flat, transcribe, whisper_model, loadOk) ==
    IF ~flat.ok THEN "skip"
    ELSE IF NeedsWhisperLoad(flat.val, transcribe, whisper_model) /\ ~loadOk THEN "skip"
    ELSE "append"

\* the raw items process_tiktok_data is run on
FullItem(id) ==
    Dict([id |-> Str(id), authorMeta |-> Dict([name |-> Str("ann")]), text |-> Str("c"),
          diggCount |-> Num(10), shareCount |-> Num(2), commentCount |-> Num(3),
          videoMeta |-> Dict([duration |-> Num(15)]),
          hashtags |-> List(<<Dict([name |-> Str("fyp")])>>),
          webVideoUrl |-> Str("w"), videoUrl |-> Str("u"), createTime |-> Num(7)])
RawItems ==
    {FullItem("v1"), FullItem("v2"),
     Dict([id |-> Str("v1")]),
     EmptyDict,
     Dict([id |-> Str("v1"), authorMeta |-> Null]),
     Dict([id |-> Str("v2"), hashtags |-> List(<<EmptyDict>>)]),
     Str("v1")}
RawBatches == SeqsUpTo(RawItems, MaxRecords)

\* -------------------------------------------------------------- the CLI
\* main.py 53-79: the subcommands
Commands == {"fetch", "process", "analyze", "generate", "publish"}

\* data_processor.py 13-130: the methods TikTokDataProcessor defines
ProcessorMethods ==
    {"load_whisper_model", "fetch_tiktok_data", "process_tiktok_data", "_transcribe_video"}

\* data_processor.<name>: the attribute lookup main.py makes at 100 and 115
ProcessorMethod(name) ==
    IF name \in ProcessorMethods THEN Ok(name)
    ELSE Raise("AttributeError",
               "'TikTokDataProcessor' object has no attribute '" \o name \o "'")

\* data_processor.py 35-46: the actor run with its input
ActorRun(actor_id, hashtags, usernames, max_items) ==
    [actor_id |-> actor_id,
     run_input |->
        [k \in {"maxItems"} \cup (IF Truthy(hashtags) THEN {"hashtags"} ELSE {})
                            \cup (IF Truthy(usernames) THEN {"usernames"} ELSE {}) |->
            CASE k = "maxItems" -> max_items
              [] k = "hashtags" -> hashtags
              [] k = "usernames" -> usernames]]

\* data_processor.py 24-58: fetch_tiktok_data.  actor is what the Apify
\* actor run and the dataset listing do: Ok(items) or Raise; writeOk whether
\* the raw file can be written.  saved is what is on disk afterwards.
FetchTikTokData(actor_id, hashtags, usernames, max_items, actor, writeOk) ==
    IF ~Truthy(hashtags) /\ ~Truthy(usernames)
    THEN [ok |-> FALSE, cls |-> "ValueError",
          msg |-> "At least one hashtag or username must be provided",
          runs |-> <<>>, saved |-> <<>>]
    ELSE IF ~actor.ok
    THEN [ok |-> FALSE, cls |-> actor.cls, msg |-> actor.msg,
          runs |-> <<ActorRun(actor_id, hashtags, usernames, max_items)>>,
          saved |-> <<>>]
    ELSE IF ~writeOk
    THEN [ok |-> FALSE, cls |-> "OSError", msg |-> "No such file or directory",
          runs |-> <<ActorRun(actor_id, hashtags, usernames, max_items)>>,
          saved |-> <<>>]
    ELSE [ok |-> TRUE, val |-> List(actor.val),
          runs |-> <<ActorRun(actor_id, hashtags, usernames, max_items)>>,
          saved |-> <<[path |-> "tiktok_raw_<timestamp>.json", items |-> actor.val]>>]

\* main.py 102: len(result['items']) on what fetch_tiktok_data returned
FetchedCount(result) ==
    IF ~result.ok THEN Raise(result.cls, result.msg)
    ELSE IF ~PyGetItem(result.val, "items").ok THEN PyGetItem(result.val, "items")
    ELSE PyLen(PyGetItem(result.val, "items").val)

\* main.py 88-102: the fetch branch.  The positional arguments username,
\* limit, output_path land in the parameters actor_id, hashtags, usernames;
\* max_items keeps its default 10.
MainFetchOutcome(fetched) ==
    [calls |-> <<"fetch_tiktok_data">>,
     exit |-> IF FetchedCount(fetched).ok THEN "ok" ELSE "crash",
     runs |-> fetched.runs,
     saved |-> fetched.saved]
MainFetch(username, limit, output_path, actor, writeOk) ==
    MainFetchOutcome(FetchTikTokData(Str(username), Num(limit), Str(output_path),
                                     Num(10), actor, writeOk))

\* main.py 104-117: the process branch calls data_processor.process_raw_data
MainProcess ==
    [calls |-> IF ProcessorMethod("process_raw_data").ok
               THEN <<"process_raw_data">> ELSE <<>>,
     exit |-> IF ProcessorMethod("process_raw_data").ok THEN "ok" ELSE "crash",
     runs |-> <<>>,
     saved |-> <<>>]

\* main.py 127, 147, 170: the stage the other subcommands call
StageOf(command) ==
    CASE command = "analyze" -> "analyze_content"
      [] command = "generate" -> "generate_scripts"
      [] command = "publish" -> "push_to_notion"

\* what the scraping actor can answer
ActorOutcomes ==
    {Ok(<<>>), Ok(<<Dict([id |-> Str("v1")])>>), Raise("APIError", "Actor was not found")}
FetchLimits == {0, 10}

\* ------------------------------------------------------------ JSON files
\* Python values that json.dump accepts and that are not JSON values as
\* they stand: a tuple, and a dict whose keys are ints
Tuple(items) == [kind |-> "tuple", items |-> items]
IntDict(fields) == [kind |-> "intdict", fields |-> fields]

\* utils.py 99: what json.dump writes for a value: a tuple is written as an
\* array, an int key as its decimal string, the rest member by member
RECURSIVE JsonEncode(_)
JsonEncode(v) ==
    CASE v.kind \in {"list", "tuple"} ->
            List([i \in 1..Len(v.items) |-> JsonEncode(v.items[i])])
      [] v.kind = "dict" ->
            Dict([k \in DOMAIN v.fields |-> JsonEncode(v.fields[k])])
      [] v.kind = "intdict" ->
            Dict([k \in {ToString(n) : n \in DOMAIN v.fields} |->
                    JsonEncode(v.fields[CHOOSE n \in DOMAIN v.fields : ToString(n) = k])])
      [] OTHER -> v

\* utils.py 98-99: open(filepath, 'w') and json.dump.  written is how far
\* the write got: "all", "part" (the file is left truncated) or "none" (the
\* file could not be opened)
WriteFile(text, written) ==
    CASE written = "all" -> <<text>>
      [] written = "part" -> <<BadText("")>>
      [] written = "none" -> <<>>

\* utils.py 79-103: save_json; the value is the file at filepath afterwards.
\* Every exception is logged and swallowed (102-103).
SaveJsonFile(data, written) == WriteFile(JsonDumps(JsonEncode(data)), written)

\* load_json handing back the text of the file instead of parsing it
LoadJsonUnparsed(file) ==
    IF file = <<>> THEN Raise("FileNotFoundError", "No such file or directory")
    ELSE Ok(file[1])

\* utils.py 70-77: load_json re-raises what open or json.load raised
LoadJson(file) ==
    IF file = <<>> THEN Raise("FileNotFoundError", "No such file or directory")
    ELSE JsonLoads(file[1])

\* the values save_json is run on
JsonAtoms == {Num(0), Num(1), Str("a")}
KeySets == {{}, {"a"}, {"a", "b"}}
IntKeySets == {{1}, {1, 2}}
FlatValues ==
    JsonAtoms
        \cup {List(s) : s \in SeqsUpTo(JsonAtoms, MaxLen - 1)}
        \cup {Tuple(s) : s \in SeqsUpTo(JsonAtoms, MaxLen - 1)}
        \cup {UniformDict(ks, v) : ks \in KeySets, v \in JsonAtoms}
        \cup {IntDict([k \in ks |-> v]) : ks \in IntKeySets, v \in JsonAtoms}
NestedValues ==
    FlatValues
        \cup {List(<<v>>) : v \in FlatValues}
        \cup {Dict([results |-> v]) : v \in FlatValues}
WriteOutcomes == {"all", "part", "none"}

\* ------------------------------------------------------------------ state
VARIABLES
    n_pc,          \* normalization harness: "idle", "called", "returned"
    n_response,    \* the raw response text handed to the normalization
    n_variants,    \* the requested variant count
    n_out,         \* what the normalization did (NormalizeResponse record)
    g_pc,          \* gateway harness: "idle", "called", "returned", "raised"
    g_call,        \* the arguments and environment of the call in progress
    g_out,         \* what generate_llm_response did (GenerateLlmResponse record)
    a_pc,          \* analyze_content: "idle", "loop", "returned", "raised"
    a_in,          \* its input: the frame read from data_path, the environment
    a_idx,         \* rows the loop has been through
    a_results,     \* analysis_results["results"]
    a_trace,       \* per row, what the completion API answered
    a_calls,       \* gateway calls and completion requests issued so far
    a_saved,       \* the artifact on disk: <<>> or <<contents>>
    s_pc,          \* generate_scripts: "idle", "loop", "returned", "raised"
    s_in,          \* its input: analysis file, variants, the environment
    s_entries,     \* analysis_data["results"] as iterated
    s_idx,         \* entries the loop has been through
    s_scripts,     \* scripts_data["scripts"]
    s_trace,       \* per entry, what the completion API answered
    s_calls,       \* gateway calls and completion requests issued so far
    s_saved,       \* the artifact on disk: <<>> or <<contents>>
    p_pc,          \* publish: "idle", "check", "sets", "variants", "returned", "raised"
    p_in,          \* the scripts file, whether the Notion client exists
    p_sets,        \* data as iterated by the outer loop
    p_i,           \* script sets the outer loop has been through
    p_variants,    \* the variants of the script set in progress
    p_j,           \* variants of it the inner loop has been through
    p_counts,      \* success_count and error_count
    p_requests,    \* the requests sent to the Notion API, in order
    p_result,      \* what push_to_notion returned
    d_pc,          \* process_tiktok_data: "idle", "loop", "returned", "raised"
    d_in,          \* its arguments: data, transcribe, save
    d_idx,         \* items the loop has been through
    d_processed,   \* processed_data
    d_whisper,     \* whether self.whisper_model is loaded
    d_trace,       \* per item: whisper_model before it, what load_model did
    d_saved,       \* the processed files on disk: <<>> or <<records>>
    c_pc,          \* main: "idle", "parsed", "running", "exited"
    c_command,     \* args.command
    c_calls,       \* the stage methods main has called
    c_exit,        \* how the process ended: "none", "ok", "crash"
    c_fetch,       \* fetch: the actor runs started and the raw file written
    f_pc,          \* JSON file round trip: "idle", "saved", "loaded"
    f_data,        \* the value handed to save_json
    f_file,        \* the file at filepath: <<>> or <<text>>
    f_loaded       \* what load_json did: Ok(value) or Raise

nvars == <<n_pc, n_response, n_variants, n_out>>
gvars == <<g_pc, g_call, g_out>>
avars == <<a_pc, a_in, a_idx, a_results, a_trace, a_calls, a_saved>>
svars == <<s_pc, s_in, s_entries, s_idx, s_scripts, s_trace, s_calls, s_saved>>
pvars == <<p_pc, p_in, p_sets, p_i, p_variants, p_j, p_counts, p_requests, p_result>>
dvars == <<d_pc, d_in, d_idx, d_processed, d_whisper, d_trace, d_saved>>
cvars == <<c_pc, c_command, c_calls, c_exit, c_fetch>>
fvars == <<f_pc, f_data, f_file, f_loaded>>
vars == <<nvars, gvars, avars, svars, pvars, dvars, cvars, fvars>>

\* each entry point leaves the state of the others alone
NormFrame == UNCHANGED <<gvars, avars, svars, pvars, dvars, cvars, fvars>>
GwFrame == UNCHANGED <<nvars, avars, svars, pvars, dvars, cvars, fvars>>
AnFrame == UNCHANGED <<nvars, gvars, svars, pvars, dvars, cvars, fvars>>
GenFrame == UNCHANGED <<nvars, gvars, avars, pvars, dvars, cvars, fvars>>
PubFrame == UNCHANGED <<nvars, gvars, avars, svars, dvars, cvars, fvars>>
ProcFrame == UNCHANGED <<nvars, gvars, avars, svars, pvars, cvars, fvars>>
CliFrame == UNCHANGED <<nvars, gvars, avars, svars, pvars, dvars, fvars>>
FileFrame == UNCHANGED <<nvars, gvars, avars, svars, pvars, dvars, cvars>>

\* ------------------------------------------------ normalization harness
NoOut == [ok |-> TRUE, val |-> <<>>, caught |-> <<>>, log |-> <<>>]

NormInit ==
    /\ n_pc = "idle"
    /\ n_response = BadText("")
    /\ n_variants = 0
    /\ n_out = NoOut

\* a caller requests variants script variants and the LLM answers with text
NormCall ==
    /\ n_pc = "idle"
    /\ \E text \in RawTexts, variants \in 0..MaxVariants :
          /\ n_response' = text
          /\ n_variants' = variants
    /\ n_pc' = "called"
    /\ n_out' = NoOut
    /\ NormFrame

\* _generate_video_scripts handles the response (lines 164-225)
NormReturn ==
    /\ n_pc = "called"
    /\ n_out' = NormalizeResponse(Ok(n_response), n_variants)
    /\ n_pc' = "returned"
    /\ UNCHANGED <<n_response, n_variants>>
    /\ NormFrame

NormReset ==
    /\ n_pc = "returned"
    /\ n_pc' = "idle"
    /\ n_response' = BadText("")
    /\ n_variants' = 0
    /\ n_out' = NoOut
    /\ NormFrame

NormNext == NormCall \/ NormReturn \/ NormReset

\* ------------------------------------------------------ gateway harness
NoCall == [apiKeySet |-> TRUE, prompt |-> "", system_message |-> "",
           json_output |-> FALSE, completion |-> Ok(BadText(""))]
NoGwOut == [ok |-> TRUE, val |-> BadText(""), requests |-> <<>>]

GwInit ==
    /\ g_pc = "idle"
    /\ g_call = NoCall
    /\ g_out = NoGwOut

\* a caller invokes generate_llm_response; the environment fixes whether a
\* key is configured and what the completion API will answer
GwCall ==
    /\ g_pc = "idle"
    /\ \E key \in BOOLEAN, sys \in {"", "You are an expert"}, json \in BOOLEAN,
          completion \in GwCompletions :
          g_call' = [apiKeySet |-> key, prompt |-> "Video Caption: c",
                     system_message |-> sys, json_output |-> json,
                     completion |-> completion]
    /\ g_pc' = "called"
    /\ g_out' = NoGwOut
    /\ GwFrame

\* generate_llm_response runs (utils.py 26-64)
GwRun ==
    /\ g_pc = "called"
    /\ g_out' = GenerateLlmResponse(g_call.apiKeySet, g_call.prompt,
                    g_call.system_message, g_call.json_output, g_call.completion)
    /\ g_pc' = IF g_out'.ok THEN "returned" ELSE "raised"
    /\ UNCHANGED g_call
    /\ GwFrame

GwReset ==
    /\ g_pc \in {"returned", "raised"}
    /\ g_pc' = "idle"
    /\ g_call' = NoCall
    /\ g_out' = NoGwOut
    /\ GwFrame

GwNext == GwCall \/ GwRun \/ GwReset

\* ------------------------------------------------------ analyze_content
NoFrame == [columns |-> {}, rows |-> <<>>]

AnInit ==
    /\ a_pc = "idle"
    /\ a_in = [df |-> NoFrame, apiKeySet |-> TRUE]
    /\ a_idx = 0
    /\ a_results = <<>>
    /\ a_trace = <<>>
    /\ a_calls = [gateway |-> 0, completion |-> 0]
    /\ a_saved = <<>>

\* content_analyzer.py 29-38: the frame is read and the results start empty
AnStart ==
    /\ a_pc = "idle"
    /\ \E df \in DataFrames, key \in BOOLEAN :
          a_in' = [df |-> df, apiKeySet |-> key]
    /\ a_pc' = "loop"
    /\ UNCHANGED <<a_idx, a_results, a_trace, a_calls, a_saved>>
    /\ AnFrame

\* content_analyzer.py 41-61: the next row
AnRecord ==
    /\ a_pc = "loop"
    /\ a_idx < Len(a_in.df.rows)
    /\ \E c1 \in AnCompletions, c2 \in AnCompletions :
          LET out == AnalyzeRecord(a_in.df.rows[a_idx + 1], a_in.apiKeySet, c1, c2) IN
          /\ a_trace' = Append(a_trace, [classify |-> c1, hook |-> c2])
          /\ a_calls' = [gateway |-> a_calls.gateway + out.calls,
                         completion |-> a_calls.completion + Len(out.requests)]
          /\ IF out.status = "ok"
             THEN /\ a_results' = Append(a_results, out.entry)
                  /\ a_idx' = a_idx + 1
                  /\ a_pc' = "loop"
             ELSE /\ a_pc' = "raised"
                  /\ UNCHANGED <<a_results, a_idx>>
    /\ UNCHANGED <<a_in, a_saved>>
    /\ AnFrame

\* content_analyzer.py 63-68: save the results and return the path
AnFinish ==
    /\ a_pc = "loop"
    /\ a_idx = Len(a_in.df.rows)
    /\ \E diskOk \in BOOLEAN :
          /\ a_saved' = SaveJson(Dict([results |-> List(a_results)]), diskOk)
          /\ a_pc' = IF SaveJsonReturns(diskOk) THEN "returned" ELSE "raised"
    /\ UNCHANGED <<a_in, a_idx, a_results, a_trace, a_calls>>
    /\ AnFrame

AnNext == AnStart \/ AnRecord \/ AnFinish

\* ------------------------------------------------------ generate_scripts
GenInit ==
    /\ s_pc = "idle"
    /\ s_in = [file |-> BadText(""), variants |-> 0, apiKeySet |-> TRUE]
    /\ s_entries = <<>>
    /\ s_idx = 0
    /\ s_scripts = <<>>
    /\ s_trace = <<>>
    /\ s_calls = [gateway |-> 0, completion |-> 0]
    /\ s_saved = <<>>

\* script_generator.py 43-55: load and validate the analysis file
GenStart ==
    /\ s_pc = "idle"
    /\ \E file \in AnalysisFiles, variants \in 0..MaxVariants, key \in BOOLEAN :
          LET loaded == LoadAnalysis(file) IN
          /\ s_in' = [file |-> file, variants |-> variants, apiKeySet |-> key]
          /\ IF loaded.ok
             THEN s_entries' = loaded.val /\ s_pc' = "loop"
             ELSE s_entries' = <<>> /\ s_pc' = "raised"
    /\ UNCHANGED <<s_idx, s_scripts, s_trace, s_calls, s_saved>>
    /\ GenFrame

\* script_generator.py 57-83: the next analysis entry
GenRecord ==
    /\ s_pc = "loop"
    /\ s_idx < Len(s_entries)
    /\ \E completion \in GenCompletions :
          LET out == GenerateRecord(s_entries[s_idx + 1], s_in.variants,
                                    s_in.apiKeySet, completion) IN
          /\ s_trace' = Append(s_trace, completion)
          /\ s_calls' = [gateway |-> s_calls.gateway + out.calls,
                         completion |-> s_calls.completion + Len(out.requests)]
          /\ IF out.status = "ok"
             THEN /\ s_scripts' = Append(s_scripts, out.entry)
                  /\ s_idx' = s_idx + 1
                  /\ s_pc' = "loop"
             ELSE /\ s_pc' = "raised"
                  /\ UNCHANGED <<s_scripts, s_idx>>
    /\ UNCHANGED <<s_in, s_entries, s_saved>>
    /\ GenFrame

\* script_generator.py 85-90: save the scripts and return the path
GenFinish ==
    /\ s_pc = "loop"
    /\ s_idx = Len(s_entries)
    /\ \E diskOk \in BOOLEAN :
          /\ s_saved' = SaveJson(Dict([scripts |-> List(s_scripts)]), diskOk)
          /\ s_pc' = IF SaveJsonReturns(diskOk) THEN "returned" ELSE "raised"
    /\ UNCHANGED <<s_in, s_entries, s_idx, s_scripts, s_trace, s_calls>>
    /\ GenFrame

GenNext == GenStart \/ GenRecord \/ GenFinish

\* ------------------------------------------------------- push_to_notion
PubInit ==
    /\ p_pc = "idle"
    /\ p_in = [file |-> BadText(""), client |-> FALSE]
    /\ p_sets = <<>>
    /\ p_i = 0
    /\ p_variants = <<>>
    /\ p_j = 0
    /\ p_counts = [success |-> 0, errors |-> 0]
    /\ p_requests = <<>>
    /\ p_result = FALSE

\* main.py 85, 159-164: the output manager is constructed and the scripts
\* file is loaded; load_json re-raises what it could not read
PubStart ==
    /\ p_pc = "idle"
    /\ \E data \in PublishData, valid \in BOOLEAN, notionKeySet \in BOOLEAN, clientOk \in BOOLEAN :
          /\ p_in' = [file |-> IF valid THEN GoodText(data) ELSE BadText(""),
                      client |-> InitNotionClient(notionKeySet, clientOk)]
          /\ p_pc' = IF valid THEN "check" ELSE "raised"
    /\ UNCHANGED <<p_sets, p_i, p_variants, p_j, p_counts, p_requests, p_result>>
    /\ PubFrame

\* output_manager.py 66-81: no client, then len(data) for the log line
\* (outside the try), then the database check
PubCheck ==
    /\ p_pc = "check"
    /\ \E retrieve \in {Ok("database")} \cup NotionFailures :
          IF ~p_in.client
          THEN /\ p_pc' = "returned" /\ p_result' = FALSE
               /\ UNCHANGED <<p_sets, p_requests>>
          ELSE IF ~PyLen(p_in.file.parsed).ok
          THEN /\ p_pc' = "raised"
               /\ UNCHANGED <<p_sets, p_requests, p_result>>
          ELSE /\ p_requests' = <<[op |-> "retrieve", ok |-> retrieve.ok]>>
               /\ IF DatabaseCheck(retrieve) = "proceed"
                  THEN /\ p_pc' = "sets"
                       /\ p_sets' = PyIter(p_in.file.parsed).val
                       /\ UNCHANGED p_result
                  ELSE /\ p_pc' = "returned" /\ p_result' = FALSE
                       /\ UNCHANGED p_sets
    /\ UNCHANGED <<p_in, p_i, p_variants, p_j, p_counts>>
    /\ PubFrame

\* output_manager.py 84-90: the next script set; an exception here goes to
\* the outer handler (177-179), which returns False
PubScriptSet ==
    /\ p_pc = "sets"
    /\ p_i < Len(p_sets)
    /\ IF ReadScriptSet(p_sets[p_i + 1]).ok
       THEN /\ p_variants' = ReadScriptSet(p_sets[p_i + 1]).val
            /\ p_j' = 0
            /\ p_pc' = "variants"
            /\ UNCHANGED p_result
       ELSE /\ p_pc' = "returned" /\ p_result' = FALSE
            /\ UNCHANGED <<p_variants, p_j>>
    /\ UNCHANGED <<p_in, p_sets, p_i, p_counts, p_requests>>
    /\ PubFrame

\* the outcome of one variant applied to the state
PubTally(page, outcome) ==
    /\ p_requests' = IF page.ok THEN Append(p_requests, page.val) ELSE p_requests
    /\ p_counts' = [success |-> p_counts.success + (IF outcome = "success" THEN 1 ELSE 0),
                    errors |-> p_counts.errors + (IF outcome = "error" THEN 1 ELSE 0)]
    /\ IF outcome = "abort"
       THEN p_pc' = "returned" /\ p_result' = FALSE /\ UNCHANGED p_j
       ELSE p_pc' = "variants" /\ p_j' = p_j + 1 /\ UNCHANGED p_result

\* output_manager.py 90-172: the next variant of the script set
PubVariant ==
    /\ p_pc = "variants"
    /\ p_j < Len(p_variants)
    /\ \E api \in {Ok("page")} \cup NotionFailures :
          PubTally(BuildPage(SetProperties(p_sets[p_i + 1]), p_variants[p_j + 1],
                             VariantNumber(p_variants[p_j + 1])),
                   VariantHandler(p_variants[p_j + 1],
                                  BuildPage(SetProperties(p_sets[p_i + 1]), p_variants[p_j + 1],
                                            VariantNumber(p_variants[p_j + 1])),
                                  api))
    /\ UNCHANGED <<p_in, p_sets, p_i, p_variants>>
    /\ PubFrame

\* output_manager.py 90: the inner loop is through, on to the next set
PubSetDone ==
    /\ p_pc = "variants"
    /\ p_j = Len(p_variants)
    /\ p_i' = p_i + 1
    /\ p_pc' = "sets"
    /\ UNCHANGED <<p_in, p_sets, p_variants, p_j, p_counts, p_requests, p_result>>
    /\ PubFrame

\* output_manager.py 174-175: both loops are through
PubReturn ==
    /\ p_pc = "sets"
    /\ p_i = Len(p_sets)
    /\ p_result' = PushResult(p_counts.success, p_counts.errors)
    /\ p_pc' = "returned"
    /\ UNCHANGED <<p_in, p_sets, p_i, p_variants, p_j, p_counts, p_requests>>
    /\ PubFrame

PubNext == PubStart \/ PubCheck \/ PubScriptSet \/ PubVariant \/ PubSetDone \/ PubReturn

\* -------------------------------------------------- process_tiktok_data
ProcInit ==
    /\ d_pc = "idle"
    /\ d_in = [data |-> <<>>, transcribe |-> FALSE, save |-> TRUE]
    /\ d_idx = 0
    /\ d_processed = <<>>
    /\ d_whisper = FALSE
    /\ d_trace = <<>>
    /\ d_saved = <<>>

\* data_processor.py 60-65: the call; processed_data starts empty
ProcStart ==
    /\ d_pc = "idle"
    /\ \E data \in RawBatches, transcribe \in BOOLEAN, save \in BOOLEAN :
          d_in' = [data |-> data, transcribe |-> transcribe, save |-> save]
    /\ d_pc' = "loop"
    /\ UNCHANGED <<d_idx, d_processed, d_whisper, d_trace, d_saved>>
    /\ ProcFrame

\* one item applied to the state
ProcApply(flat, outcome, loadOk) ==
    /\ d_processed' = IF outcome = "append" THEN Append(d_processed, flat.val)
                      ELSE d_processed
    /\ d_whisper' = (d_whisper \/ (flat.ok /\ loadOk
                        /\ NeedsWhisperLoad(flat.val, d_in.transcribe, d_whisper)))
    /\ d_trace' = Append(d_trace, [whisper |-> d_whisper, loadOk |-> loadOk])
    /\ d_idx' = d_idx + 1

\* data_processor.py 67-102: the next item
ProcItem ==
    /\ d_pc = "loop"
    /\ d_idx < Len(d_in.data)
    /\ \E loadOk \in BOOLEAN :
          ProcApply(Flatten(d_in.data[d_idx + 1]),
                    ItemOutcome(Flatten(d_in.data[d_idx + 1]), d_in.transcribe,
                                d_whisper, loadOk),
                    loadOk)
    /\ UNCHANGED <<d_pc, d_in, d_saved>>
    /\ ProcFrame

\* data_processor.py 104-117: the frame is built, written if asked for and
\* not empty (to_csv and to_json stand outside any try), and returned
ProcFinish ==
    /\ d_pc = "loop"
    /\ d_idx = Len(d_in.data)
    /\ \E diskOk \in BOOLEAN :
          IF d_in.save /\ d_processed # <<>>
          THEN IF diskOk THEN d_saved' = <<d_processed>> /\ d_pc' = "returned"
               ELSE d_saved' = <<>> /\ d_pc' = "raised"
          ELSE d_pc' = "returned" /\ UNCHANGED d_saved
    /\ UNCHANGED <<d_in, d_idx, d_processed, d_whisper, d_trace>>
    /\ ProcFrame

ProcNext == ProcStart \/ ProcItem \/ ProcFinish

\* ----------------------------------------------------------------- main
CliInit ==
    /\ c_pc = "idle"
    /\ c_command = "none"
    /\ c_calls = <<>>
    /\ c_exit = "none"
    /\ c_fetch = [runs |-> <<>>, saved |-> <<>>]

\* main.py 49-85: the arguments are parsed (the required ones are given)
\* and the output manager is constructed
CliInvoke ==
    /\ c_pc = "idle"
    /\ \E command \in Commands : c_command' = command
    /\ c_pc' = "parsed"
    /\ UNCHANGED <<c_calls, c_exit, c_fetch>>
    /\ CliFrame

\* the outcome of a branch that main runs in one piece
CliEnd(out) ==
    /\ c_calls' = out.calls
    /\ c_exit' = out.exit
    /\ c_fetch' = [runs |-> out.runs, saved |-> out.saved]
    /\ c_pc' = "exited"

\* main.py 88-102
CliFetch ==
    /\ c_pc = "parsed"
    /\ c_command = "fetch"
    /\ \E limit \in FetchLimits, actor \in ActorOutcomes, writeOk \in BOOLEAN :
          CliEnd(MainFetch("creator", limit, "data/raw/out.json", actor, writeOk))
    /\ UNCHANGED c_command
    /\ CliFrame

\* main.py 104-117
CliProcess ==
    /\ c_pc = "parsed"
    /\ c_command = "process"
    /\ CliEnd(MainProcess)
    /\ UNCHANGED c_command
    /\ CliFrame

\* main.py 119-127, 132-154, 159-170: the stage of the subcommand is called
CliCallStage ==
    /\ c_pc = "parsed"
    /\ c_command \in {"analyze", "generate", "publish"}
    /\ c_calls' = <<StageOf(c_command)>>
    /\ c_pc' = "running"
    /\ UNCHANGED <<c_command, c_exit, c_fetch>>
    /\ CliFrame

\* the stage called is the one that runs
CliAnalyze == c_pc = "running" /\ c_command = "analyze" /\ AnNext
CliGenerate == c_pc = "running" /\ c_command = "generate" /\ GenNext
CliPublish == c_pc = "running" /\ c_command = "publish" /\ PubNext

\* how the stage in progress ended: "returned", "raised" or still running
StageState ==
    CASE c_command = "analyze" -> a_pc
      [] c_command = "generate" -> s_pc
      [] c_command = "publish" -> p_pc
      [] OTHER -> "idle"

\* main.py 130, 157, 173-179: the stage returned and main logs and ends, or
\* the stage raised and the exception ends the process
CliExit ==
    /\ c_pc = "running"
    /\ StageState \in {"returned", "raised"}
    /\ c_exit' = IF StageState = "returned" THEN "ok" ELSE "crash"
    /\ c_pc' = "exited"
    /\ UNCHANGED <<c_command, c_calls, c_fetch>>
    /\ CliFrame

CliNext ==
    \/ CliInvoke \/ CliFetch \/ CliProcess \/ CliCallStage
    \/ CliAnalyze \/ CliGenerate \/ CliPublish \/ CliExit

\* ------------------------------------------------- save_json, load_json
FileInit ==
    /\ f_pc = "idle"
    /\ f_data = Null
    /\ f_file = <<>>
    /\ f_loaded = Ok(Null)

\* utils.py 79-103: save_json(data, filepath)
FileSave ==
    /\ f_pc = "idle"
    /\ \E data \in NestedValues, written \in WriteOutcomes :
          /\ f_data' = data
          /\ f_file' = SaveJsonFile(data, written)
    /\ f_pc' = "saved"
    /\ UNCHANGED f_loaded
    /\ FileFrame

\* utils.py 70-77: load_json(filepath)
FileLoad ==
    /\ f_pc = "saved"
    /\ f_loaded' = LoadJson(f_file)
    /\ f_pc' = "loaded"
    /\ UNCHANGED <<f_data, f_file>>
    /\ FileFrame

FileNext == FileSave \/ FileLoad

\* --------------------------------------------------------- specifications
Init ==
    /\ NormInit /\ GwInit /\ AnInit /\ GenInit /\ PubInit /\ ProcInit /\ CliInit
    /\ FileInit

SpecNormalize == Init /\ [][NormNext]_vars
SpecGateway == Init /\ [][GwNext]_vars
SpecAnalyze == Init /\ [][AnNext]_vars
SpecGenerate == Init /\ [][GenNext]_vars
SpecPublish == Init /\ [][PubNext]_vars
SpecProcess == Init /\ [][ProcNext]_vars
SpecCli == Init /\ [][CliNext]_vars
SpecJsonFile == Init /\ [][FileNext]_vars

\* ------------------------------------------------- normalization: claims
IsDict(v) == v.kind = "dict"
EndsWith(s, suffix) ==
    Len(s) >= Len(suffix) /\ SubSeq(s, Len(s) - Len(suffix) + 1, Len(s)) = suffix

\* C1: for every requested count N >= 0 and every raw response text, valid
\* JSON of any shape or malformed, the normalization returns a sequence of
\* exactly N variants.
C1_LengthExactlyN ==
    n_pc = "returned" => n_out.ok /\ Len(n_out.val) = n_variants

\* the LLM over-produced: a longer array than requested was cut to N >= 1
C1_Witness ==
    /\ n_pc = "returned"
    /\ n_response.valid
    /\ n_response.parsed.kind = "list"
    /\ n_variants >= 1
    /\ Len(n_response.parsed.items) > n_variants
    /\ Len(n_out.val) = n_variants

\* C2: every returned variant is a record whose five fields hook, value,
\* cta, visuals and audio are all present and string-valued, whatever the
\* LLM text parsed to.
C2_FieldsPresentAndStrings ==
    n_pc = "returned" =>
        \A i \in 1..Len(n_out.val) :
            /\ IsDict(n_out.val[i])
            /\ \A f \in FieldSet :
                  /\ f \in DOMAIN n_out.val[i].fields
                  /\ n_out.val[i].fields[f].kind = "str"

C4_Filled(d) ==
    Dict([f \in DOMAIN d.fields \cup FieldSet |->
            IF f \in DOMAIN d.fields THEN d.fields[f] ELSE Str("Missing " \o f)])

\* C4: when the text parses to an array of M mappings, position i <=
\* min(M, N) is the i-th element with absent fields set to "Missing <field>",
\* elements beyond N are dropped, and each position k with M < k <= N is a
\* placeholder whose hook is "Additional script variant k" and whose other
\* fields name the same k.
C4_ArrayOfMappings ==
    (/\ n_pc = "returned"
     /\ n_response.valid
     /\ n_response.parsed.kind = "list"
     /\ \A j \in 1..Len(n_response.parsed.items) : IsDict(n_response.parsed.items[j]))
    =>
        LET items == n_response.parsed.items IN
        /\ n_out.ok
        /\ n_out.caught = <<>>
        /\ Len(n_out.val) = n_variants
        /\ \A i \in 1..Len(n_out.val) :
              IF i <= Len(items)
              THEN n_out.val[i] = C4_Filled(items[i])
              ELSE /\ IsDict(n_out.val[i])
                   /\ DOMAIN n_out.val[i].fields = FieldSet
                   /\ n_out.val[i].fields["hook"] =
                         Str("Additional script variant " \o ToString(i))
                   /\ \A f \in FieldSet :
                         EndsWith(n_out.val[i].fields[f].s, " variant " \o ToString(i))

\* a one-element array with only a hook, three variants requested
C4_Witness ==
    /\ n_pc = "returned"
    /\ n_response = GoodText(List(<<UniformDict({"hook"}, Str("H"))>>))
    /\ n_variants = 3
    /\ n_out.val[1].fields["value"] = Str("Missing value")
    /\ n_out.val[3].fields["hook"] = Str("Additional script variant 3")

\* C5 as stated: an exception caught by the outer handler yields N uniform
\* variants all of whose fields embed the exception message.
C5_AllFieldsEmbedMessage ==
    (n_pc = "returned" /\ n_out.caught # <<>>) =>
        /\ n_out.ok
        /\ Len(n_out.val) = n_variants
        /\ \A i \in 1..Len(n_out.val) : \A f \in FieldSet :
              Contains(n_out.val[i].fields[f].s, n_out.caught[1])

\* C5 as amended: the normalization never raises; an exception other than a
\* JSON decode error is converted into N identical variants whose hook is
\* "Error generating script: <message>" and whose other four fields are
\* "Error generating script".  A parsed number or null is one such case.
C5_NeverRaisesHookEmbedsMessage ==
    n_pc = "returned" =>
        /\ n_out.ok
        /\ (n_response.valid /\ n_response.parsed.kind \in {"num", "null"})
              => n_out.caught # <<>>
        /\ n_out.caught # <<>> =>
              /\ Len(n_out.val) = n_variants
              /\ \A i \in 1..Len(n_out.val) :
                    /\ IsDict(n_out.val[i])
                    /\ DOMAIN n_out.val[i].fields = FieldSet
                    /\ n_out.val[i].fields["hook"] =
                          Str("Error generating script: " \o n_out.caught[1])
                    /\ \A f \in FieldSet \ {"hook"} :
                          n_out.val[i].fields[f] = Str("Error generating script")

\* an exception was caught with at least two variants requested
C5_Witness ==
    /\ n_pc = "returned"
    /\ n_out.caught # <<>>
    /\ n_variants >= 2
    /\ Len(n_out.val) = n_variants

\* ------------------------------------------------------ gateway: claims
GwDone == g_pc \in {"returned", "raised"}

\* C7: on any failure of the completion call, failure to obtain the client
\* included, generate_llm_response does not raise: it returns the JSON text of
\* {"error": <message>} when JSON output is requested and the plain string
\* "Error: <message>" otherwise.
C7_FailureNeverRaises ==
    (GwDone /\ (~g_call.apiKeySet \/ ~g_call.completion.ok)) =>
        /\ g_pc = "returned"
        /\ g_call.json_output =>
              /\ g_out.val.valid
              /\ g_out.val.parsed.kind = "dict"
              /\ DOMAIN g_out.val.parsed.fields = {"error"}
        /\ ~g_call.json_output =>
              /\ ~g_out.val.valid
              /\ SubSeq(g_out.val.raw, 1, 7) = "Error: "

\* C8: when the completion call succeeds and JSON output is requested, the
\* completion text is returned unmodified if it parses as JSON and the
\* fallback object {content_type: "unknown", content_approach: "unknown",
\* reasoning: "Model did not return valid JSON", original_response: <raw>}
\* otherwise; every text returned with JSON output requested parses as JSON.
C8_JsonOutputIsJson ==
    /\ (GwDone /\ g_call.apiKeySet /\ g_call.completion.ok /\ g_call.json_output) =>
          /\ g_pc = "returned"
          /\ g_call.completion.val.valid => g_out.val = g_call.completion.val
          /\ ~g_call.completion.val.valid =>
                /\ g_out.val.valid
                /\ g_out.val.parsed = Dict(
                      [content_type |-> Str("unknown"),
                       content_approach |-> Str("unknown"),
                       reasoning |-> Str("Model did not return valid JSON"),
                       original_response |-> Str(g_call.completion.val.raw)])
    /\ (g_pc = "returned" /\ g_call.json_output) => g_out.val.valid

\* the model answered with malformed text although JSON was requested
C8_Witness ==
    /\ g_pc = "returned"
    /\ g_call.json_output
    /\ g_call.completion.ok
    /\ g_call.completion.val = BadText("not json")
    /\ g_out.val.valid

\* ----------------------------------------------- generate_scripts: claims
\* C6 as stated: every entry of the scripts output, entries carrying an
\* error field included, has exactly N variants.
C6_EveryEntryHasNVariants ==
    \A i \in 1..Len(s_scripts) :
        /\ "variants" \in DOMAIN s_scripts[i].fields
        /\ s_scripts[i].fields["variants"].kind = "list"
        /\ Len(s_scripts[i].fields["variants"].items) = s_in.variants

\* C6 as amended: an entry without an error field has exactly N variants; an
\* entry with an error field (script generation for the record raised) has an
\* empty variants sequence.
C6_NVariantsUnlessError ==
    \A i \in 1..Len(s_scripts) :
        /\ "variants" \in DOMAIN s_scripts[i].fields
        /\ s_scripts[i].fields["variants"].kind = "list"
        /\ Len(s_scripts[i].fields["variants"].items) =
              IF "error" \in DOMAIN s_scripts[i].fields THEN 0 ELSE s_in.variants

\* a finished run with N >= 1 that holds an error entry and a normal entry
C6_Witness ==
    /\ s_pc = "returned"
    /\ s_in.variants >= 1
    /\ \E i \in 1..Len(s_scripts) : "error" \in DOMAIN s_scripts[i].fields
    /\ \E i \in 1..Len(s_scripts) :
          /\ "error" \notin DOMAIN s_scripts[i].fields
          /\ Len(s_scripts[i].fields["variants"].items) = s_in.variants

\* ------------------------------------------------ analyze_content: claims
AnDone == a_pc \in {"returned", "raised"}

\* C9: analyze_content produces exactly one results entry per input record,
\* in input order; a record whose analysis raises (a missing required field)
\* yields exactly {video_id, error}, and processing continues with the next
\* record.
C9_OneEntryPerRecord ==
    AnDone =>
        /\ a_pc = "returned"
        /\ Len(a_results) = Len(a_in.df.rows)
        /\ \A i \in 1..Len(a_results) :
              /\ a_results[i].fields["video_id"] = a_in.df.rows[i]["video_id"]
              /\ "caption" \notin a_in.df.columns =>
                    DOMAIN a_results[i].fields = {"video_id", "error"}

ClassificationKeys == {"content_type", "content_approach", "reasoning"}

\* the completion call for the classification of row i failed, returned
\* malformed JSON, or the gateway raised
ClassifyFailed(i) ==
    \/ ~a_in.apiKeySet
    \/ ~a_trace[i].classify.ok
    \/ ~a_trace[i].classify.val.valid

\* C10 as stated: every stored classification is a mapping with
\* content_type, content_approach and reasoning, and after a failure all of
\* them equal "unknown" and an error field carries the detail.
C10_UnknownFallbackWithError ==
    \A i \in 1..Len(a_results) :
        "classification" \in DOMAIN a_results[i].fields =>
            LET c == a_results[i].fields["classification"] IN
            /\ IsDict(c)
            /\ ClassificationKeys \subseteq DOMAIN c.fields
            /\ ClassifyFailed(i) =>
                  /\ \A k \in ClassificationKeys : c.fields[k] = Str("unknown")
                  /\ "error" \in DOMAIN c.fields

\* C10 as amended: a stored classification is the JSON value the LLM text
\* parsed to (of any shape) when the call succeeded with valid JSON; the
\* mapping {content_type: "unknown", content_approach: "unknown", reasoning:
\* "Model did not return valid JSON", original_response} when the text was
\* malformed; the mapping {error: <message>} alone when the completion call
\* failed; and {content_type: "unknown", content_approach: "unknown",
\* reasoning: "Error analyzing: <message>"} without an error field when the
\* classifier's own try failed.
C10_ClassificationShapes ==
    \A i \in 1..Len(a_results) :
        "classification" \in DOMAIN a_results[i].fields =>
            LET c == a_results[i].fields["classification"]
                completion == a_trace[i].classify
            IN  IF ~a_in.apiKeySet
                THEN /\ IsDict(c)
                     /\ DOMAIN c.fields = ClassificationKeys
                     /\ c.fields["content_type"] = Str("unknown")
                     /\ c.fields["content_approach"] = Str("unknown")
                     /\ SubSeq(c.fields["reasoning"].s, 1, 17) = "Error analyzing: "
                ELSE IF ~completion.ok
                THEN c = Dict([error |-> Str(completion.msg)])
                ELSE IF completion.val.valid
                THEN c = completion.val.parsed
                ELSE c = Dict([content_type |-> Str("unknown"),
                               content_approach |-> Str("unknown"),
                               reasoning |-> Str("Model did not return valid JSON"),
                               original_response |-> Str(completion.val.raw)])

\* the completion call failed and the stored classification is {error} alone
C10_Witness ==
    /\ a_pc = "returned"
    /\ \E i \in 1..Len(a_results) :
          /\ "classification" \in DOMAIN a_results[i].fields
          /\ a_results[i].fields["classification"] = Dict([error |-> Str("Connection error.")])

\* ------------------------------------------------- push_to_notion: claims
\* the database check was made and passed
PubChecked == p_requests # <<>> /\ p_requests[1].op = "retrieve" /\ p_requests[1].ok
PubCreates == {k \in 1..Len(p_requests) : p_requests[k].op = "create"}

\* the number of variants listed under key in the mappings of a sequence
RECURSIVE VariantsUnder(_, _, _)
VariantsUnder(sets, key, i) ==
    IF i > Len(sets) THEN 0
    ELSE (IF sets[i].kind = "dict" /\ key \in DOMAIN sets[i].fields
             /\ sets[i].fields[key].kind = "list"
          THEN Len(sets[i].fields[key].items) ELSE 0)
         + VariantsUnder(sets, key, i + 1)

\* C11: no page-creation request is issued before the database-retrieve
\* check has succeeded; if the retrieve fails, or the client is not
\* initialized, push_to_notion returns failure having created zero pages.
C11_NoPageBeforeDatabaseCheck ==
    /\ PubCreates # {} => PubChecked
    /\ p_pc = "returned" /\ (~p_in.client \/ ~PubChecked)
          => p_result = FALSE /\ PubCreates = {}

\* the retrieve failed on a file that lists variants to publish
C11_Witness ==
    /\ p_pc = "returned"
    /\ p_in.client
    /\ p_requests = <<[op |-> "retrieve", ok |-> FALSE]>>
    /\ p_in.file.parsed.kind = "list"
    /\ VariantsUnder(p_in.file.parsed.items, "script_variants", 1) > 0
    /\ p_result = FALSE

\* C12 (as claimed): once the database check has passed, every variant gets
\* one page-creation attempt counted as one success or one error, and the
\* result is success if and only if the error count is zero.
C12_EveryVariantCountedOnce ==
    p_pc = "returned" /\ PubChecked
        => /\ p_result <=> p_counts.errors = 0
           /\ p_in.file.parsed.kind = "list"
                 => p_counts.success + p_counts.errors
                        = VariantsUnder(p_in.file.parsed.items, "script_variants", 1)

\* C13 (as claimed): publishing a file in the ScriptsOutput schema of
\* generate_scripts issues as many page-creation requests as the file has
\* variants.
C13_OnePagePerVariantOfScriptsOutput ==
    p_pc = "returned" /\ PubChecked /\ p_in.file.parsed \in ScriptsOutputs
        => Cardinality(PubCreates)
              = VariantsUnder(p_in.file.parsed.fields["scripts"].items, "variants", 1)

\* -------------------------------------------- process_tiktok_data: claims
\* item i raised inside the per-item try: in the projection, or in loading
\* the Whisper model
ItemRaised(i) ==
    \/ ~Flatten(d_in.data[i]).ok
    \/ /\ NeedsWhisperLoad(Flatten(d_in.data[i]).val, d_in.transcribe, d_trace[i].whisper)
       /\ ~d_trace[i].loadOk

\* the flattened records of the items from i on that did not raise
RECURSIVE FlattenedFrom(_)
FlattenedFrom(i) ==
    IF i > Len(d_in.data) THEN <<>>
    ELSE (IF ItemRaised(i) THEN <<>> ELSE <<Flatten(d_in.data[i]).val>>)
         \o FlattenedFrom(i + 1)

\* the source key each scalar field is projected from, and its default
Projections ==
    {<<"video_id", "id", Str("")>>, <<"caption", "text", Str("")>>,
     <<"likes", "diggCount", Num(0)>>, <<"shares", "shareCount", Num(0)>>,
     <<"comments", "commentCount", Num(0)>>, <<"video_url", "webVideoUrl", Str("")>>,
     <<"download_url", "videoUrl", Str("")>>, <<"created_at", "createTime", Num(0)>>}
DefaultsApplied(item, record) ==
    /\ \A pr \in Projections :
          pr[2] \notin DOMAIN item.fields => record.fields[pr[1]] = pr[3]
    /\ "authorMeta" \notin DOMAIN item.fields
          => record.fields["creator_name"] = Str("")
             /\ record.fields["creator_username"] = Str("")
    /\ "videoMeta" \notin DOMAIN item.fields => record.fields["duration"] = Num(0)
    /\ "hashtags" \notin DOMAIN item.fields => record.fields["hashtags"] = List(<<>>)
    /\ record.fields["transcript"] = Str("")

C15_VideoIdsDistinct ==
    d_pc = "returned"
        => \A i, j \in 1..Len(d_processed) :
              i # j => d_processed[i].fields["video_id"] # d_processed[j].fields["video_id"]

\* ------------------------------------------------------------ main: claims
\* the artifact of the subcommand exists when the process has ended
CliArtifact ==
    CASE c_command = "fetch" -> c_fetch.saved # <<>>
      [] c_command = "process" -> d_saved # <<>>
      [] c_command = "analyze" -> a_saved # <<>>
      [] c_command = "generate" -> s_saved # <<>>
      [] c_command = "publish" -> p_result
      [] OTHER -> FALSE

\* C16 (as claimed): an invocation of fetch, process, analyze, generate or
\* publish with its required arguments calls exactly one stage, and that
\* stage has run to completion and produced its artifact when the process
\* exits.
C16_OneStageRunsToCompletion ==
    c_pc = "exited" => Len(c_calls) = 1 /\ c_exit = "ok" /\ CliArtifact

\* ------------------------------------------ save_json, load_json: claims
\* a value built from lists, string-keyed mappings, numbers and strings only
RECURSIVE IsPlainJson(_)
IsPlainJson(v) ==
    CASE v.kind = "list" -> \A i \in 1..Len(v.items) : IsPlainJson(v.items[i])
      [] v.kind = "dict" -> \A k \in DOMAIN v.fields : IsPlainJson(v.fields[k])
      [] v.kind \in {"str", "num"} -> TRUE
      [] OTHER -> FALSE

ClaimedCandidates(v) ==
    IF v.kind = "list" THEN v.items
    ELSE IF v.kind = "dict" /\ "scripts" \in DOMAIN v.fields
            /\ v.fields["scripts"].kind = "list"
    THEN v.fields["scripts"].items
    ELSE <<v>>

\* C18 (as claimed): a parsed array is itself the candidate list, a parsed
\* mapping with a scripts key holding an array uses that array, and every
\* other parsed value, a mapping without such a key or a scalar, becomes a
\* one-element candidate list that is padded to N like any other.
C18_SelectionAsClaimed ==
    n_pc = "returned" /\ n_response.valid
        => /\ SelectCandidates(n_response.parsed, n_variants).ok
           /\ Slice(SelectCandidates(n_response.parsed, n_variants).val, n_variants)
                 = Slice(ClaimedCandidates(n_response.parsed), n_variants)
           /\ n_response.parsed.kind \notin {"list", "dict"} /\ n_variants >= 2
                 => /\ n_out.ok /\ Len(n_out.val) = n_variants
                    /\ n_out.val[2] = AdditionalScript(2)

\* ------------------------------------------------------ no retries: claims
\* the analysis records gone through whose insights could be read, that is,
\* for which _generate_video_scripts got as far as its gateway call
RECURSIVE RecordsCalled(_)
RecordsCalled(i) ==
    IF i = 0 THEN 0
    ELSE RecordsCalled(i - 1)
         + (IF PyGet(s_entries[i], "video_id", Str("unknown")).ok
               /\ ExtractInsights(s_entries[i]).ok THEN 1 ELSE 0)

\* C19 (as claimed): script generation issues exactly one gateway call per
\* analysis record, content analysis at most two per processed record, and
\* the gateway one completion request per call.
C19_ExactlyOneCallPerRecord ==
    /\ s_calls.gateway = Len(s_trace)
    /\ s_calls.completion = s_calls.gateway
    /\ a_calls.gateway <= 2 * Len(a_trace)
    /\ a_calls.completion = a_calls.gateway

\* C19 (amended): script generation issues at most one gateway call per
\* analysis record, exactly one for each record whose insights could be
\* read; content analysis issues at most two per processed record; the
\* gateway sends at most one completion request per call, none when the
\* client could not be set up; a failed call is never attempted again.
C19_AtMostOneCallPerRecord ==
    /\ s_calls.gateway <= Len(s_trace)
    /\ s_calls.gateway = RecordsCalled(Len(s_trace))
    /\ s_calls.completion <= s_calls.gateway
    /\ s_in.apiKeySet => s_calls.completion = s_calls.gateway
    /\ a_calls.gateway <= 2 * Len(a_trace)
    /\ a_calls.completion <= a_calls.gateway
    /\ a_in.apiKeySet => a_calls.completion = a_calls.gateway

\* two analysis records were gone through, the completion call failed for
\* both, and two requests were sent in all
C19_Witness ==
    /\ c_command = "generate"
    /\ s_pc = "returned"
    /\ Len(s_trace) = 2
    /\ \A i \in 1..2 : ~s_trace[i].ok
    /\ s_calls = [gateway |-> 2, completion |-> 2]

\* ------------------------------------- gateway and normalization: claims
\* the completion for entry i was malformed text or a failed call
DegradedCompletion(i) == ~s_trace[i].ok \/ ~s_trace[i].val.valid

\* the variants written for entry i
VariantsOf(i) == s_scripts[i].fields["variants"].items

\* C20: composed with the gateway (JSON output requested) the parse-failure
\* branch of the normalization is never taken: no variant written is the
\* "Error parsing script response" placeholder, and when the gateway
\* returned after a malformed completion or a failed call, the first variant
\* is the gateway's single mapping with its five fields set to
\* "Missing <field name>".
C20_ParseFailureBranchUnreachable ==
    \A i \in 1..Len(s_scripts) :
       /\ \A k \in 1..Len(VariantsOf(i)) : VariantsOf(i)[k] # ParseErrorScript
       /\ s_in.apiKeySet /\ DegradedCompletion(i) /\ Len(VariantsOf(i)) >= 1
             => /\ VariantsOf(i)[1].kind = "dict"
                /\ \A f \in FieldSet :
                      VariantsOf(i)[1].fields[f] = Str("Missing " \o f)
                /\ \/ "original_response" \in DOMAIN VariantsOf(i)[1].fields
                   \/ "error" \in DOMAIN VariantsOf(i)[1].fields

\* a malformed completion came back as the gateway's fallback mapping and
\* was field-filled as the first of two variants
C20_Witness ==
    /\ s_pc = "returned"
    /\ s_in.apiKeySet
    /\ s_in.variants = 2
    /\ Len(s_scripts) >= 1
    /\ s_trace[1] = Ok(BadText("not json"))
    /\ Len(VariantsOf(1)) = 2
    /\ VariantsOf(1)[1].fields["hook"] = Str("Missing hook")
    /\ "original_response" \in DOMAIN VariantsOf(1)[1].fields
    /\ VariantsOf(1)[2] = AdditionalScript(2)

\* ------------------------------------------------------- save_json: claims
\* C21: save_json never raises: when the write fails it only logs, so
\* analyze_content and generate_scripts raise only while loading or going
\* through their records, never when saving, and return the output path
\* with either the complete artifact or no complete file at that path.
C21_SaveFailureStillReturns ==
    /\ a_pc = "raised" => a_idx < Len(a_in.df.rows)
    /\ s_pc = "raised" => ~LoadAnalysis(s_in.file).ok \/ s_idx < Len(s_entries)
    /\ a_pc = "returned"
          => a_idx = Len(a_in.df.rows)
             /\ a_saved \in {<<>>, <<Dict([results |-> List(a_results)])>>}
    /\ s_pc = "returned"
          => s_idx = Len(s_entries)
             /\ s_saved \in {<<>>, <<Dict([scripts |-> List(s_scripts)])>>}
    /\ c_pc = "exited" /\ c_command \in {"analyze", "generate"} /\ StageState = "returned"
          => c_exit = "ok"

\* the write of the analysis results failed, yet analyze_content returned
\* its path and the process ended normally with no artifact on disk
C21_Witness ==
    /\ c_command = "analyze"
    /\ c_pc = "exited"
    /\ c_exit = "ok"
    /\ a_pc = "returned"
    /\ Len(a_results) = 2
    /\ a_saved = <<>>

============================================================================
